---- MODULE Spec2Model ----
(***************************************************************************)
(* LockForge password generator (src/app.js): the charset builder, the     *)
(* password sampler, the strength scorer and the bounded history list.     *)
(*                                                                         *)
(* A JavaScript string is modelled as a sequence of one-character strings, *)
(* so "ab" is << "a", "b" >> and "" is << >>.  Handlers run to completion  *)
(* (one thread), which the pc guards of the actions reproduce.  The        *)
(* clipboard, the title flash, the export download, the theme switch and   *)
(* the tilt effect read the state below and never write it; they are not   *)
(* modelled.  A history entry is modelled by its pw field: the at field    *)
(* (a timestamp) is read by the export handler only.                       *)
(***************************************************************************)
EXTENDS Integers, Sequences, FiniteSets

\* ------------------------------------------------------------ bounds
\* Math.random() is modelled as k / RandomSteps for k in 0 .. RandomSteps-1.
RandomSteps == 3
\* Largest value of the length slider that is explored.
MaxLen == 3
\* Largest number of successful generations between two clears.
MaxGens == 6
\* Longest padded text handed to evaluateStrength.
MaxTextLen == 20

\* ------------------------------------------------------------ config
\* The grave accent U+0060, which a string literal here cannot hold.
BACKTICK == "<U+0060>"

UPPER ==
    << "A", "B", "C", "D", "E", "F", "G", "H", "I", "J", "K", "L", "M", "N",
       "O", "P", "Q", "R", "S", "T", "U", "V", "W", "X", "Y", "Z" >>
LOWER ==
    << "a", "b", "c", "d", "e", "f", "g", "h", "i", "j", "k", "l", "m", "n",
       "o", "p", "q", "r", "s", "t", "u", "v", "w", "x", "y", "z" >>
NUMS ==
    << "0", "1", "2", "3", "4", "5", "6", "7", "8", "9" >>
SYMBOLS ==
    << "!", "@", "#", "$", "%", "^", "&", "*", "(", ")", "_", "+", "[", "]",
       "{", "}", "|", ";", ":", ",", ".", "<", ">", "?", "/", "~", BACKTICK, "-",
       "=" >>
AMBIGUOUS ==
    << "0", "O", "1", "l", "I" >>

\* The control characters U+0000 and U+0001, which no category contains.
NUL == "<U+0000>"
SOH == "<U+0001>"

Range(s) == {s[j] : j \in DOMAIN s}
Min(a, b) == IF a <= b THEN a ELSE b
Max(a, b) == IF a >= b THEN a ELSE b

\* The values the controls may hold when onGenerate reads them.
Configs ==
    [uppercase : BOOLEAN, lowercase : BOOLEAN, numbers : BOOLEAN,
     symbols : BOOLEAN, avoidAmbiguous : BOOLEAN, length : 1..MaxLen]

\* The configs explored together with the history list: the list never looks
\* inside a password, so few distinct passwords are enough there.
HistConfigs ==
    {c \in Configs : ~c.uppercase /\ ~c.lowercase /\ ~c.symbols
                     /\ (c.numbers => c.avoidAmbiguous \/ c.length = 1)
                     /\ (c.numbers => c.length <= 2)}

\* ------------------------------------------------------------ helpers
\* What the escape \c denotes inside a character class of a RegExp built
\* without the u flag: \0 is U+0000, \1 is the octal escape U+0001, and a
\* letter that names no class or control escape (O, l, I) is itself.
ClassEscape(c) ==
    CASE c = "0" -> NUL
      [] c = "1" -> SOH
      [] OTHER -> c

\* The character class of new RegExp("[" + AMBIGUOUS.split("").map(c=>"\\"+c).join("") + "]", "g").
AmbiguousRe == {ClassEscape(AMBIGUOUS[j]) : j \in DOMAIN AMBIGUOUS}

\* charset.replace(re, ""): every match of the class is removed.
ReplaceAll(s, class) == SelectSeq(s, LAMBDA c : c \notin class)

buildCharset(c) ==
    LET charset == (IF c.uppercase THEN UPPER ELSE << >>)
                   \o (IF c.lowercase THEN LOWER ELSE << >>)
                   \o (IF c.numbers THEN NUMS ELSE << >>)
                   \o (IF c.symbols THEN SYMBOLS ELSE << >>)
    IN  IF c.avoidAmbiguous THEN ReplaceAll(charset, AmbiguousRe) ELSE charset

\* Mutant of randomInt: Math.floor(Math.random()) * max, the floor taken too early.
randomIntFloorFirst(max, k) == (k \div RandomSteps) * max

\* Math.floor(Math.random() * max) with Math.random() = k / RandomSteps.
randomInt(max, k) == (k * max) \div RandomSteps

\* The index of a string is 0-based in the source and 1-based here.
CharAt(s, idx) == s[idx + 1]

selectedSets(c) ==
    (IF c.uppercase THEN << UPPER >> ELSE << >>)
    \o (IF c.lowercase THEN << LOWER >> ELSE << >>)
    \o (IF c.numbers THEN << NUMS >> ELSE << >>)
    \o (IF c.symbols THEN << SYMBOLS >> ELSE << >>)

\* Mutant of requiredCount: the Math.min with length forgotten.
requiredCountNoMin(c) == Len(selectedSets(c))

requiredCount(c) == Min(Len(selectedSets(c)), c.length)

\* Mutant of GuaranteedSet: selectedSets[0] for every slot.
GuaranteedSetFirst(c, slot) == CharAt(selectedSets(c), 0)

\* selectedSets[i % selectedSets.length]
GuaranteedSet(c, slot) == CharAt(selectedSets(c), slot % Len(selectedSets(c)))

\* AMBIGUOUS.includes(ch)
IsAmbiguous(c) == c \in Range(AMBIGUOUS)

\* Every order the array sort with the comparator Math.random() - 0.5 can
\* leave the characters in: the comparator is inconsistent, so the order is
\* any permutation of the characters.
Shuffles(s) ==
    {[j \in 1..Len(s) |-> s[p[j]]] :
        p \in {q \in [1..Len(s) -> 1..Len(s)] :
                 \A a, b \in 1..Len(s) : a # b => q[a] # q[b]}}

\* ------------------------------------------------------------ strength

\* The label evaluateStrength gives the empty text: a dash, not a rating.
Placeholder == "-"

hasLower(pw) == \E j \in DOMAIN pw : pw[j] \in Range(LOWER)
hasUpper(pw) == \E j \in DOMAIN pw : pw[j] \in Range(UPPER)
hasNum(pw) == \E j \in DOMAIN pw : pw[j] \in Range(NUMS)
\* /[^A-Za-z0-9]/
hasSym(pw) ==
    \E j \in DOMAIN pw : pw[j] \notin Range(UPPER) \cup Range(LOWER) \cup Range(NUMS)

\* [hasLower, hasUpper, hasNum, hasSym].filter(Boolean).length
types(pw) ==
    (IF hasLower(pw) THEN 1 ELSE 0) + (IF hasUpper(pw) THEN 1 ELSE 0)
    + (IF hasNum(pw) THEN 1 ELSE 0) + (IF hasSym(pw) THEN 1 ELSE 0)

\* /(.)\1{2,}/: some character three or more times in a row.
hasRepeatedRun(pw) ==
    \E j \in 1..(Len(pw) - 2) : pw[j] = pw[j + 1] /\ pw[j + 1] = pw[j + 2]

WeakTokens ==
    { << "p", "a", "s", "s", "w", "o", "r", "d" >>,
      << "1", "2", "3", "4" >>,
      << "q", "w", "e", "r", "t", "y" >>,
      << "a", "d", "m", "i", "n" >> }

\* The i flag: a letter matches in either case.
ToLower(c) ==
    IF \E j \in DOMAIN UPPER : UPPER[j] = c
    THEN LOWER[CHOOSE j \in DOMAIN UPPER : UPPER[j] = c]
    ELSE c

\* Mutant of startsWithWeakToken: the i flag dropped.
startsWithWeakTokenCaseSensitive(pw) ==
    \E t \in WeakTokens :
        /\ Len(pw) >= Len(t)
        /\ \A j \in DOMAIN t : pw[j] = t[j]

\* /^(?:password|1234|qwerty|admin)/i
startsWithWeakToken(pw) ==
    \E t \in WeakTokens :
        /\ Len(pw) >= Len(t)
        /\ \A j \in DOMAIN t : ToLower(pw[j]) = t[j]

\* Mutant of lengthPoints: the cap of 40 dropped.
lengthPointsUncapped(len) == (len - 6) * 333

\* Scores are kept in hundredths until they are rounded: 3.33 is 333.
\* Math.min(40, (len - 6) * 3.33)
lengthPoints(len) == Min(4000, (len - 6) * 333)

\* The score before the weak-token override (lines 107-116).
basePoints(pw) ==
    lengthPoints(Len(pw)) + types(pw) * 1500
    - (IF hasRepeatedRun(pw) THEN 1000 ELSE 0)

\* Math.round of a value in hundredths: floor(x + 0.5).
Round(x) == (x + 50) \div 100

\* Mutant of finalScore: the lower clamp dropped.
finalScoreNoFloor(points) == Min(100, Round(points))

\* Math.max(0, Math.min(100, Math.round(score)))
finalScore(points) == Max(0, Min(100, Round(points)))

labelOf(score) ==
    IF score >= 80 THEN "Strong"
    ELSE IF score >= 60 THEN "Medium"
    ELSE IF score >= 30 THEN "Weak"
    ELSE "Very weak"

\* Mutant of evaluateStrength: the early return for the empty text dropped.
evaluateStrengthNoShortCircuit(pw) ==
    LET points == IF startsWithWeakToken(pw) THEN 500 ELSE basePoints(pw)
        score == finalScore(points)
    IN  [score |-> score, label |-> labelOf(score)]

evaluateStrength(pw) ==
    IF pw = << >> THEN [score |-> 0, label |-> Placeholder]
    ELSE LET points == IF startsWithWeakToken(pw) THEN 500 ELSE basePoints(pw)
             score == finalScore(points)
         IN  [score |-> score, label |-> labelOf(score)]

\* strengthFill's class, from updateStrengthUI.
strengthClass(score) ==
    IF score >= 80 THEN "strength-strong"
    ELSE IF score >= 60 THEN "strength-medium"
    ELSE IF score >= 30 THEN "strength-weak"
    ELSE "strength-very-weak"

\* ------------------------------------------------------------ history
MAX_HISTORY == 5

\* Mutant of pushHistory: the test of the empty password dropped.
pushHistoryUnchecked(h, pw) ==
    LET u == << pw >> \o h
    IN  IF Len(u) > MAX_HISTORY THEN SubSeq(u, 1, Len(u) - 1) ELSE u

\* Mutant of pushHistory: shift() for pop(), which drops the new entry.
pushHistoryShift(h, pw) ==
    IF pw = << >> THEN h
    ELSE LET u == << pw >> \o h
         IN  IF Len(u) > MAX_HISTORY THEN SubSeq(u, 2, Len(u)) ELSE u

\* history.unshift(entry); if (history.length > MAX_HISTORY) history.pop()
pushHistory(h, pw) ==
    IF pw = << >> THEN h
    ELSE LET u == << pw >> \o h
         IN  IF Len(u) > MAX_HISTORY THEN SubSeq(u, 1, Len(u) - 1) ELSE u

\* ------------------------------------------------------------ state
VARIABLES
    cfg,            \* the controls as the running (or last) onGenerate read them
    pc,             \* idle, or the place onGenerate / generatePassword is at
    slot,           \* the loop index i of generatePassword
    ch,             \* the character drawn for the guaranteed slot
    pw,             \* the local pw of generatePassword, before the shuffle
    result,         \* the value generatePassword returns
    resampled,      \* ghost: the resampling loop ran in this call
    passwordOutput, \* passwordOutput.value
    strength,       \* what updateStrengthUI shows
    history,        \* the history list, newest first
    gens,           \* ghost: the non-empty passwords generated since the last clear, oldest first
    histBefore,     \* ghost: history when the running (or last) onGenerate began
    lastOp,         \* ghost: the last handler that completed
    evalText,       \* two texts handed to evaluateStrength
    evalRes         \* evalRes[n] is what evaluateStrength(evalText[n]) returned

vars ==
    << cfg, pc, slot, ch, pw, result, resampled, passwordOutput, strength,
       history, gens, histBefore, lastOp, evalText, evalRes >>

genVars == << cfg, pc, slot, ch, pw, result, resampled >>
uiVars == << passwordOutput, strength, history, gens, histBefore, lastOp >>
evalVars == << evalText, evalRes >>

NoChar == "none"
NoResult == [score |-> -1, label |-> "none"]
NoStrength == [score |-> -1, label |-> "none", class |-> "none"]
Randoms == 0..(RandomSteps - 1)
\* The draws explored together with the history list: the two ends of the range.
HistRandoms == {0, RandomSteps - 1}

\* ------------------------------------------------------------ generatePassword
\* Lines 72-83: the pool, the early return, the setup of the first loop.
generateEnter ==
    /\ pc = "call"
    /\ IF buildCharset(cfg) = << >>
       THEN /\ result' = << >>
            /\ pc' = "return"
            /\ UNCHANGED << slot, pw >>
       ELSE /\ pw' = << >>
            /\ slot' = 0
            /\ pc' = "guaranteed"
            /\ UNCHANGED result
    /\ UNCHANGED << cfg, ch, resampled >>
    /\ UNCHANGED uiVars /\ UNCHANGED evalVars

\* Lines 84-93, one iteration up to the inner loop: draw from the slot's set.
guaranteedSlot(k) ==
    /\ pc = "guaranteed"
    /\ slot < requiredCount(cfg)
    /\ LET set == GuaranteedSet(cfg, slot)
           c == CharAt(set, randomInt(Len(set), k))
       IN  IF cfg.avoidAmbiguous /\ IsAmbiguous(c)
           THEN /\ ch' = c
                /\ pc' = "resample"
                /\ resampled' = TRUE
                /\ UNCHANGED << pw, slot >>
           ELSE /\ pw' = Append(pw, c)
                /\ slot' = slot + 1
                /\ UNCHANGED << ch, pc, resampled >>
    /\ UNCHANGED << cfg, result >>
    /\ UNCHANGED uiVars /\ UNCHANGED evalVars

\* Lines 88-92: one iteration of while(AMBIGUOUS.includes(ch)), and the
\* append once the loop is left.
resample(k) ==
    /\ pc = "resample"
    /\ LET set == GuaranteedSet(cfg, slot)
           c == CharAt(set, randomInt(Len(set), k))
       IN  IF IsAmbiguous(c)
           THEN /\ ch' = c
                /\ UNCHANGED << pw, slot, pc >>
           ELSE /\ pw' = Append(pw, c)
                /\ slot' = slot + 1
                /\ ch' = NoChar
                /\ pc' = "guaranteed"
    /\ UNCHANGED << cfg, result, resampled >>
    /\ UNCHANGED uiVars /\ UNCHANGED evalVars

\* Line 84 false, line 95: the second loop starts at i = pw.length.
guaranteedDone ==
    /\ pc = "guaranteed"
    /\ ~(slot < requiredCount(cfg))
    /\ slot' = Len(pw)
    /\ pc' = "fill"
    /\ UNCHANGED << cfg, ch, pw, result, resampled >>
    /\ UNCHANGED uiVars /\ UNCHANGED evalVars

\* Lines 95-98, one iteration: draw from the pool.
fillSlot(k) ==
    /\ pc = "fill"
    /\ slot < cfg.length
    /\ LET charset == buildCharset(cfg)
       IN  pw' = Append(pw, CharAt(charset, randomInt(Len(charset), k)))
    /\ slot' = slot + 1
    /\ UNCHANGED << cfg, pc, ch, result, resampled >>
    /\ UNCHANGED uiVars /\ UNCHANGED evalVars

\* Line 95 false, lines 100-101: shuffle and return.
shuffleAndReturn ==
    /\ pc = "fill"
    /\ ~(slot < cfg.length)
    /\ result' \in Shuffles(pw)
    /\ pc' = "return"
    /\ UNCHANGED << cfg, slot, ch, pw, resampled >>
    /\ UNCHANGED uiVars /\ UNCHANGED evalVars

\* ------------------------------------------------------------ handlers
\* onGenerate, lines 185-186: read the controls and call generatePassword.
onGenerate(c) ==
    /\ pc = "idle"
    /\ Len(gens) < MaxGens
    /\ cfg' = c
    /\ pc' = "call"
    /\ slot' = 0 /\ ch' = NoChar /\ pw' = << >> /\ result' = << >>
    /\ resampled' = FALSE
    /\ histBefore' = history
    /\ UNCHANGED << passwordOutput, strength, history, gens, lastOp >>
    /\ UNCHANGED evalVars

\* updateStrengthUI
updateStrengthUI(text) ==
    LET s == evaluateStrength(text)
    IN  [score |-> s.score, label |-> s.label, class |-> strengthClass(s.score)]

\* onGenerate, lines 187-189: show the password, its strength, and record it.
onGenerateReturn ==
    /\ pc = "return"
    /\ passwordOutput' = result
    /\ strength' = updateStrengthUI(result)
    /\ history' = pushHistory(history, result)
    /\ gens' = IF result = << >> THEN gens ELSE Append(gens, result)
    /\ lastOp' = "generate"
    /\ pc' = "idle"
    /\ slot' = 0 /\ ch' = NoChar /\ pw' = << >> /\ result' = << >>
    /\ UNCHANGED << cfg, resampled, histBefore >>
    /\ UNCHANGED evalVars

\* The click handler of clearHistoryBtn.
clearHistory ==
    /\ pc = "idle"
    /\ history' = << >>
    /\ gens' = << >>
    /\ lastOp' = "clear"
    /\ UNCHANGED << passwordOutput, strength, histBefore >>
    /\ UNCHANGED genVars /\ UNCHANGED evalVars

NoConfig ==
    [uppercase |-> FALSE, lowercase |-> FALSE, numbers |-> FALSE,
     symbols |-> FALSE, avoidAmbiguous |-> FALSE, length |-> 1]

InitUi ==
    /\ passwordOutput = << >>
    /\ strength = NoStrength
    /\ history = << >>
    /\ gens = << >>
    /\ histBefore = << >>
    /\ lastOp = "none"

InitEval ==
    /\ evalText = [n \in 1..2 |-> << >>]
    /\ evalRes = [n \in 1..2 |-> NoResult]

InitLocals ==
    /\ slot = 0 /\ ch = NoChar /\ pw = << >> /\ result = << >>
    /\ resampled = FALSE

\* The page after the script has run: nothing generated, the history empty.
Init ==
    /\ cfg = NoConfig
    /\ pc = "idle"
    /\ InitLocals /\ InitUi /\ InitEval

generateStep(R) ==
    \/ generateEnter
    \/ \E k \in R : guaranteedSlot(k)
    \/ \E k \in R : resample(k)
    \/ guaranteedDone
    \/ \E k \in R : fillSlot(k)
    \/ shuffleAndReturn

Next ==
    \/ \E c \in HistConfigs : onGenerate(c)
    \/ generateStep(HistRandoms)
    \/ onGenerateReturn
    \/ clearHistory

Spec == Init /\ [][Next]_vars

\* One call of generatePassword, from any config.
InitGen ==
    /\ cfg \in Configs
    /\ pc = "call"
    /\ InitLocals /\ InitUi /\ InitEval

NextGen == generateStep(Randoms)

SpecGen == InitGen /\ [][NextGen]_vars

\* Leaving the resampling loop: a draw outside the ambiguous set.
resampleExit == \E k \in Randoms : resample(k) /\ pc' = "guaranteed"

\* Fair draws: a step that can be taken is taken, and the resampling loop,
\* which a draw outside the ambiguous set always leaves, is left.
FairSpecGen ==
    InitGen /\ [][NextGen]_vars /\ WF_vars(NextGen) /\ WF_vars(resampleExit)

\* ------------------------------------------------------------ evaluateStrength alone
Cycle(pat, n) == [j \in 1..n |-> pat[((j - 1) % Len(pat)) + 1]]

Patterns ==
    { << "a", "b" >>,
      << "a", "B" >>,
      << "a", "B", "1" >>,
      << "a", "B", "1", "!" >>,
      << "a" >>,
      << "7", "7", "7", "x" >> }

PlainTexts == {Cycle(p, n) : p \in Patterns, n \in 0..MaxTextLen}

WeakStarts ==
    { << "p", "a", "s", "s", "w", "o", "r", "d" >>,
      << "P", "A", "S", "S", "W", "O", "R", "D" >>,
      << "P", "a", "s", "s", "W", "o", "r", "d" >>,
      << "1", "2", "3", "4" >>,
      << "q", "w", "e", "r", "t", "y" >>,
      << "Q", "w", "E", "r", "T", "y" >>,
      << "a", "d", "m", "i", "n" >>,
      << "A", "d", "m", "i", "n" >> }

NearStarts ==
    { << "x", "p", "a", "s", "s", "w", "o", "r", "d" >>,
      << "p", "a", "s", "s", " ", "w", "o", "r", "d" >>,
      << "p", "a", "s", "s", "w", "o", "r" >>,
      << "1", "2", "3" >>,
      << "1", "1", "1", "2", "3", "4" >>,
      << "!", "Z", "1", "2", "3", "4" >>,
      << "m", "y", "a", "d", "m", "i", "n" >>,
      << "q", "w", "e", "r", "t" >>,
      << "B", "q", "w", "e", "r", "t", "y" >> }

Tails ==
    { << >>,
      << "1", "2", "3" >>,
      << "a", "a", "a" >>,
      << "!", "A", "9", "z", "#", "Q", "5", "k", "%", "Z", "2" >> }

PrefixedTexts == {s \o t : s \in WeakStarts \cup NearStarts, t \in Tails}

EvalTexts == PlainTexts \cup PrefixedTexts

\* Two texts, neither evaluated yet.
InitTexts ==
    /\ cfg = NoConfig
    /\ pc = "idle"
    /\ InitLocals /\ InitUi
    /\ evalText \in [1..2 -> EvalTexts]
    /\ evalRes = [n \in 1..2 |-> NoResult]

\* One call of evaluateStrength.
evaluate(n) ==
    /\ evalRes[n] = NoResult
    /\ evalRes' = [evalRes EXCEPT ![n] = evaluateStrength(evalText[n])]
    /\ UNCHANGED evalText
    /\ UNCHANGED genVars /\ UNCHANGED uiVars

NextEval == \E n \in 1..2 : evaluate(n)

SpecEval == InitTexts /\ [][NextEval]_vars

\* ------------------------------------------------------------ properties
NumEnabled(c) ==
    (IF c.uppercase THEN 1 ELSE 0) + (IF c.lowercase THEN 1 ELSE 0)
    + (IF c.numbers THEN 1 ELSE 0) + (IF c.symbols THEN 1 ELSE 0)

\* The enabled categories as sets of characters, in the order uppercase,
\* lowercase, digit, symbol.
EnabledCategories(c) ==
    (IF c.uppercase THEN << Range(UPPER) >> ELSE << >>)
    \o (IF c.lowercase THEN << Range(LOWER) >> ELSE << >>)
    \o (IF c.numbers THEN << Range(NUMS) >> ELSE << >>)
    \o (IF c.symbols THEN << Range(SYMBOLS) >> ELSE << >>)

EnabledUnion(c) == UNION Range(EnabledCategories(c))

Count(s, set) == Cardinality({j \in DOMAIN s : s[j] \in set})

Returned == pc = "return"

\* C1: with at least one category enabled and the avoid-ambiguous flag set,
\* the password generatePassword returns contains none of 0, O, 1, l, I.
C1_NoAmbiguousCharacter ==
    (Returned /\ NumEnabled(cfg) >= 1 /\ cfg.avoidAmbiguous)
        => \A j \in DOMAIN result : result[j] \notin {"0", "O", "1", "l", "I"}

\* C2: with at least one category enabled, generatePassword returns exactly
\* `length` characters, each from the union of the enabled categories, and the
\* shuffle keeps the length and the multiset of characters.
C2_LengthAndAlphabet ==
    (Returned /\ NumEnabled(cfg) >= 1)
        => /\ Len(result) = cfg.length
           /\ \A j \in DOMAIN result : result[j] \in EnabledUnion(cfg)
           /\ Len(result) = Len(pw)
           /\ \A c \in Range(pw) \cup Range(result) :
                  Count(result, {c}) = Count(pw, {c})

\* A call that filled slots from the pool and whose shuffle moved characters.
C2_Witness ==
    /\ Returned
    /\ NumEnabled(cfg) = 2
    /\ Len(result) = 3
    /\ result # pw

\* C3: the returned password holds a character of each of the first
\* min(n, length) enabled categories; when length < n it holds exactly one
\* character of each of the first `length` enabled categories and none of the
\* others.
C3_CategoriesRepresented ==
    (Returned /\ NumEnabled(cfg) >= 1)
        => LET cats == EnabledCategories(cfg)
               n == Len(cats)
           IN  /\ \A q \in 1..Min(n, cfg.length) : Count(result, cats[q]) >= 1
               /\ cfg.length < n =>
                      \A q \in 1..n :
                          Count(result, cats[q]) = IF q <= cfg.length THEN 1 ELSE 0

\* Two categories, three characters (two guaranteed slots and one filled from
\* the pool), the ambiguous characters avoided and a guaranteed slot drawn again.
C3_Witness ==
    /\ Returned
    /\ NumEnabled(cfg) = 2
    /\ cfg.length = 3
    /\ cfg.avoidAmbiguous
    /\ resampled

\* C4: with no category enabled generatePassword returns the empty string, and
\* the onGenerate that called it leaves the history list as it was.
C4_NoCategoryNoEntry ==
    /\ (Returned /\ NumEnabled(cfg) = 0) => result = << >>
    /\ (pc = "idle" /\ lastOp = "generate" /\ NumEnabled(cfg) = 0)
           => /\ passwordOutput = << >>
              /\ history = histBefore

\* An onGenerate with no category enabled has completed on a non-empty history.
C4_Witness ==
    /\ pc = "idle"
    /\ lastOp = "generate"
    /\ NumEnabled(cfg) = 0
    /\ cfg.avoidAmbiguous
    /\ cfg.length = 3
    /\ Len(history) >= 2

\* C5: the history list holds at most 5 entries: the passwords of the latest
\* min(5, k) successful generations since the last clear, newest first.
C5_HistoryIsLatestFive ==
    /\ Len(history) <= 5
    /\ Len(history) = Min(5, Len(gens))
    /\ \A j \in 1..Len(history) : history[j] = gens[Len(gens) - j + 1]

\* A sixth successful generation has evicted the oldest entry.
C5_Witness ==
    /\ pc = "idle"
    /\ Len(gens) = 6
    /\ Len(history) = 5
    /\ gens[1] # gens[2]
    /\ history[5] = gens[2]

Evaluated(n) == evalRes[n] # NoResult

Tokens ==
    { << "p", "a", "s", "s", "w", "o", "r", "d" >>,
      << "1", "2", "3", "4" >>,
      << "q", "w", "e", "r", "t", "y" >>,
      << "a", "d", "m", "i", "n" >> }

Fold(c) ==
    CASE c \in Range(UPPER) -> LOWER[CHOOSE j \in DOMAIN UPPER : UPPER[j] = c]
      [] OTHER -> c

Folded(t) == [j \in DOMAIN t |-> Fold(t[j])]

TokenAt(t, at) ==
    \E tok \in Tokens :
        /\ at + Len(tok) - 1 <= Len(t)
        /\ SubSeq(Folded(t), at, at + Len(tok) - 1) = tok

\* C7: a text that starts with a weak token, in any case, scores exactly 5; a
\* text that holds a weak token only further in gets the score of its length,
\* classes and repeated runs.
C7_WeakTokenOverride ==
    \A n \in 1..2 :
        Evaluated(n) =>
            /\ TokenAt(evalText[n], 1) => evalRes[n].score = 5
            /\ (~TokenAt(evalText[n], 1)
                /\ \E at \in 2..Len(evalText[n]) : TokenAt(evalText[n], at))
                   => evalRes[n].score = finalScore(basePoints(evalText[n]))

\* "PassWord" followed by a long tail of all four classes has been scored.
C7_Witness ==
    \E n \in 1..2 :
        /\ Evaluated(n)
        /\ evalText[n] = << "P", "a", "s", "s", "W", "o", "r", "d" >> \o
                         << "!", "A", "9", "z", "#", "Q", "5", "k", "%", "Z", "2" >>
        /\ evalRes[n].score = 5

\* C8: a non-empty text gets an integer score in 0..100, and the score alone
\* decides the label.
C8_ScoreRangeAndLabel ==
    \A n \in 1..2 :
        (Evaluated(n) /\ evalText[n] # << >>)
            => LET r == evalRes[n]
               IN  /\ r.score \in 0..100
                   /\ r.label = "Strong" <=> r.score >= 80
                   /\ r.label = "Medium" <=> (r.score >= 60 /\ r.score < 80)
                   /\ r.label = "Weak" <=> (r.score >= 30 /\ r.score < 60)
                   /\ r.label = "Very weak" <=> r.score < 30

\* A text shorter than 6 with a repeated run, whose points before the clamp
\* are negative.
C8_Witness ==
    \E n \in 1..2 :
        /\ Evaluated(n)
        /\ Len(evalText[n]) \in 3..5
        /\ hasRepeatedRun(evalText[n])
        /\ evalRes[n].score = 0

\* The number of character classes present in a text.
Classes(t) ==
    Cardinality({s \in {Range(LOWER), Range(UPPER), Range(NUMS)} :
                    \E j \in DOMAIN t : t[j] \in s})
    + (IF \E j \in DOMAIN t : t[j] \notin Range(LOWER) \cup Range(UPPER) \cup Range(NUMS)
       THEN 1 ELSE 0)

Run3(t) == \E j \in 1..(Len(t) - 2) : t[j] = t[j + 1] /\ t[j] = t[j + 2]

Comparable(a, b) ==
    /\ Classes(a) = Classes(b)
    /\ Run3(a) = Run3(b)
    /\ ~TokenAt(a, 1) /\ ~TokenAt(b, 1)

\* C9: of two texts with the same number of classes, the same repeated-run
\* status and no weak-token start, the longer scores at least as much as the
\* shorter, and the same once the shorter has 18 characters.
C9_MonotoneInLength ==
    \A m, n \in 1..2 :
        (Evaluated(m) /\ Evaluated(n) /\ Comparable(evalText[m], evalText[n])
         /\ Len(evalText[m]) <= Len(evalText[n]))
            => /\ evalRes[m].score <= evalRes[n].score
               /\ Len(evalText[m]) >= 18 => evalRes[m].score = evalRes[n].score

\* Texts of 18 and 20 characters and one class have both been scored.
C9_Witness ==
    /\ Evaluated(1) /\ Evaluated(2)
    /\ Comparable(evalText[1], evalText[2])
    /\ Classes(evalText[1]) = 1
    /\ Len(evalText[1]) = 18
    /\ Len(evalText[2]) = 20
    /\ evalRes[1].score = evalRes[2].score

\* C10: generatePassword terminates under fair draws, and neither loop index
\* passes `length`.
C10_Terminates == [](slot <= cfg.length) /\ <>Returned

\* A call that drew a guaranteed slot again has returned.
C10_Witness ==
    /\ Returned
    /\ cfg.avoidAmbiguous
    /\ resampled
    /\ Len(result) = cfg.length
    /\ cfg.length >= 2
====
